---- MODULE Spec2Model ----
(***************************************************************************)
(* State-machine model of the RFID access-control firmware:                *)
(*   - the door controller   (backend/esp32_solenoidal_controller.ino)     *)
(*   - the scanner nodes     (backend/esp8266_entry_oled.ino,              *)
(*                            backend/esp32_exit_oled.ino,                 *)
(*                            backend/esp8266_rfid_entry.ino)              *)
(* Each node is a single-threaded loop(); one action of the model is one   *)
(* iteration of loop(), with the request it serves, the card it reads and  *)
(* the instants at which it samples millis() drawn from small sets.        *)
(***************************************************************************)
EXTENDS Integers, Sequences, FiniteSets, TLC

(***************************************************************************)
(* Program constants                                                       *)
(***************************************************************************)
DOOR_OPEN_TIME == 5000

DOOR_LOOP_DELAY == 50

(***************************************************************************)
(* Bounds of the model                                                     *)
(***************************************************************************)
\* millis() is an unsigned long; the model's clock wraps at ClockMod.
ClockMod == 65536

\* The statistics counters are unsigned long; the model's wrap at CountMod.
CountMod == 4

\* Horizon of the bounded (non-wrapping) specifications.
MaxTime == 12000

\* Most unlock commands served in the bounded specifications.
MaxOps == 2

\* Longest time one delay() of a loop() takes, preemption included.
MaxStep == 9000

\* Sampling step of the clock in the wrapping (fair) specification.
LiveStep == 8192

\* Instants at which the bounded specifications sample the clock: the whole
\* seconds, and the millisecond before each.
Grid == {t \in 0..MaxTime : t % 1000 = 0 \/ t % 1000 = 999}

LiveGrid == {t \in 0..(ClockMod - 1) : t % LiveStep = 0}

\* millis() at the first iteration of the door controller's loop(): setup()
\* has delayed at least 1000 + 3 * 400 ms by then.
DoorBootTimes == {3000}

(***************************************************************************)
(* unsigned long arithmetic                                                *)
(***************************************************************************)
USub(a, b) == ((a - b) + ClockMod) % ClockMod

UInc(x) == (x + 1) % CountMod

(***************************************************************************)
(* State                                                                   *)
(***************************************************************************)
VARIABLES
    now,                \* the value millis() returns at this instant
    phase,              \* "loop": about to run an iteration; "delay": in delay()
    \* door controller globals
    doorOpen, doorOpenStartTime, lastOperation,
    entryCount, exitCount, manualOperations, totalOperations,
    relayPin, statusLedPin,
    response,           \* body of the last HTTP response sent
    dg,                 \* history of the door controller (observation only)
    \* scanner node
    variant,            \* which scanner firmware the node runs
    net,                \* the subnet: the node's own address and its hosts
    lastRFID, lastScanTime, piFound, pythonServerIP, lastDiscoveryAttempt,
    sg                  \* history of the scanner (observation only)

doorVars == <<doorOpen, doorOpenStartTime, lastOperation, entryCount, exitCount,
              manualOperations, totalOperations, relayPin, statusLedPin,
              response, dg>>

scanVars == <<variant, net, lastRFID, lastScanTime, piFound, pythonServerIP,
              lastDiscoveryAttempt, sg>>

vars == <<now, phase, doorVars, scanVars>>

\* The door controller's globals and pins as one value.
DoorState == [doorOpen |-> doorOpen,
              doorOpenStartTime |-> doorOpenStartTime,
              lastOperation |-> lastOperation,
              entryCount |-> entryCount,
              exitCount |-> exitCount,
              manualOperations |-> manualOperations,
              totalOperations |-> totalOperations,
              relayPin |-> relayPin,
              statusLedPin |-> statusLedPin]

SetDoorState(d) ==
    /\ doorOpen' = d.doorOpen
    /\ doorOpenStartTime' = d.doorOpenStartTime
    /\ lastOperation' = d.lastOperation
    /\ entryCount' = d.entryCount
    /\ exitCount' = d.exitCount
    /\ manualOperations' = d.manualOperations
    /\ totalOperations' = d.totalOperations
    /\ relayPin' = d.relayPin
    /\ statusLedPin' = d.statusLedPin

(***************************************************************************)
(* Door controller: operations                                             *)
(***************************************************************************)
closeDoor_clearsReason(d) ==
    [d EXCEPT !.relayPin = "HIGH", !.statusLedPin = "LOW", !.doorOpen = FALSE,
              !.lastOperation = ""]

closeDoor_keepsRelay(d) ==
    [d EXCEPT !.statusLedPin = "LOW", !.doorOpen = FALSE]

closeDoor(d) ==
    [d EXCEPT !.relayPin = "HIGH", !.statusLedPin = "LOW", !.doorOpen = FALSE]

openDoor_noTotal(d, operation, t) ==
    [d EXCEPT !.relayPin = "LOW",
              !.statusLedPin = "HIGH",
              !.doorOpen = TRUE,
              !.doorOpenStartTime = t,
              !.lastOperation = operation,
              !.entryCount = IF operation = "entry" THEN UInc(d.entryCount)
                             ELSE d.entryCount,
              !.exitCount = IF operation = "exit" THEN UInc(d.exitCount)
                            ELSE d.exitCount,
              !.manualOperations =
                  IF operation # "entry" /\ operation # "exit"
                  THEN UInc(d.manualOperations) ELSE d.manualOperations]

openDoor_countsTransitions(d, operation, t) ==
    IF d.doorOpen
    THEN [d EXCEPT !.doorOpenStartTime = t, !.lastOperation = operation]
    ELSE [d EXCEPT !.relayPin = "LOW",
                   !.statusLedPin = "HIGH",
                   !.doorOpen = TRUE,
                   !.doorOpenStartTime = t,
                   !.lastOperation = operation,
                   !.totalOperations = UInc(d.totalOperations),
                   !.entryCount = IF operation = "entry"
                                  THEN UInc(d.entryCount) ELSE d.entryCount,
                   !.exitCount = IF operation = "exit"
                                 THEN UInc(d.exitCount) ELSE d.exitCount,
                   !.manualOperations =
                       IF operation # "entry" /\ operation # "exit"
                       THEN UInc(d.manualOperations) ELSE d.manualOperations]

openDoor_countsEntry(d, operation, t) ==
    [d EXCEPT !.relayPin = "LOW",
              !.statusLedPin = "HIGH",
              !.doorOpen = TRUE,
              !.doorOpenStartTime = t,
              !.lastOperation = operation,
              !.totalOperations = UInc(d.totalOperations),
              !.entryCount = UInc(d.entryCount)]

openDoor_keepsStartTime(d, operation, t) ==
    [d EXCEPT !.relayPin = "LOW",
              !.statusLedPin = "HIGH",
              !.doorOpen = TRUE,
              !.lastOperation = operation,
              !.totalOperations = UInc(d.totalOperations),
              !.entryCount = IF operation = "entry" THEN UInc(d.entryCount)
                             ELSE d.entryCount,
              !.exitCount = IF operation = "exit" THEN UInc(d.exitCount)
                            ELSE d.exitCount,
              !.manualOperations =
                  IF operation # "entry" /\ operation # "exit"
                  THEN UInc(d.manualOperations) ELSE d.manualOperations]

\* t is the value millis() returns inside openDoor.
openDoor(d, operation, t) ==
    [d EXCEPT !.relayPin = "LOW",
              !.statusLedPin = "HIGH",
              !.doorOpen = TRUE,
              !.doorOpenStartTime = t,
              !.lastOperation = operation,
              !.totalOperations = UInc(d.totalOperations),
              !.entryCount = IF operation = "entry" THEN UInc(d.entryCount)
                             ELSE d.entryCount,
              !.exitCount = IF operation = "exit" THEN UInc(d.exitCount)
                            ELSE d.exitCount,
              !.manualOperations =
                  IF operation # "entry" /\ operation # "exit"
                  THEN UInc(d.manualOperations) ELSE d.manualOperations]

updateDoorStatus_deadline(d, currentTime) ==
    IF d.doorOpen
       /\ currentTime >= (d.doorOpenStartTime + DOOR_OPEN_TIME) % ClockMod
    THEN closeDoor(d)
    ELSE d

updateDoorStatus_never(d, currentTime) == d

updateDoorStatus_late(d, currentTime) ==
    IF d.doorOpen /\ USub(currentTime, d.doorOpenStartTime) > DOOR_OPEN_TIME
    THEN closeDoor(d)
    ELSE d

\* currentTime is the value millis() returns inside updateDoorStatus.
updateDoorStatus(d, currentTime) ==
    IF d.doorOpen /\ USub(currentTime, d.doorOpenStartTime) >= DOOR_OPEN_TIME
    THEN closeDoor(d)
    ELSE d

\* The status body; t is the value millis() returns while it is built.  The
\* field time_until_close_ms is present only while the door is open.
getDoorStatusJSON(d, t) ==
    [kind |-> "json",
     door_open |-> d.doorOpen,
     door_closed |-> ~d.doorOpen,
     last_operation |-> d.lastOperation,
     has_time_until_close |-> d.doorOpen,
     time_until_close_ms |->
         IF d.doorOpen
         THEN USub(DOOR_OPEN_TIME, USub(t, d.doorOpenStartTime))
         ELSE 0,
     relay_pin_state |-> d.relayPin,
     status_led_state |-> d.statusLedPin,
     entry_count |-> d.entryCount,
     exit_count |-> d.exitCount,
     manual_operations |-> d.manualOperations,
     total_operations |-> d.totalOperations]

NoResponse == [kind |-> "none"]

\* The requests the buttons of handleRoot's page send (unlockDoor('entry'),
\* unlockDoor('exit'), lockDoor()).
PageRequests == {"unlock_entry", "unlock_exit", "lock"}

\* The page of handleRoot shows the state and changes none of it.
RootPage(d) == [kind |-> "html", door_open |-> d.doorOpen]

\* Each handler yields the controller's state after it and the body it sends.
handleUnlockEntry(d, t) ==
    LET d1 == openDoor(d, "entry", t)
    IN  [door |-> d1, body |-> getDoorStatusJSON(d1, t)]

handleUnlockExit_manual(d, t) ==
    LET d1 == openDoor(d, "manual", t)
    IN  [door |-> d1, body |-> getDoorStatusJSON(d1, t)]

handleUnlockExit(d, t) ==
    LET d1 == openDoor(d, "exit", t)
    IN  [door |-> d1, body |-> getDoorStatusJSON(d1, t)]

handleLock_noClose(d, t) ==
    [door |-> d, body |-> getDoorStatusJSON(d, t)]

handleLock(d, t) ==
    LET d1 == closeDoor(d)
    IN  [door |-> d1, body |-> getDoorStatusJSON(d1, t)]

handleStatus_touch(d, t) ==
    LET d1 == [d EXCEPT !.doorOpenStartTime = t]
    IN  [door |-> d1, body |-> getDoorStatusJSON(d1, t)]

handleStatus(d, t) ==
    [door |-> d, body |-> getDoorStatusJSON(d, t)]

handleRoot(d, t) ==
    [door |-> d, body |-> RootPage(d)]

\* server.handleClient(): the handler registered for the pending request, if
\* there is one (setupWebServer).
handleClient(d, req, t) ==
    CASE req = "unlock_entry" -> handleUnlockEntry(d, t)
      [] req = "unlock_exit"  -> handleUnlockExit(d, t)
      [] req = "lock"         -> handleLock(d, t)
      [] req = "status"       -> handleStatus(d, t)
      [] req = "root"         -> handleRoot(d, t)
      [] OTHER                -> [door |-> d, body |-> NoResponse]

IsUnlock(req) == req \in {"unlock_entry", "unlock_exit"}

ReasonOf(req) == IF req = "unlock_entry" THEN "entry" ELSE "exit"

\* The globals' initialisers; pinMode(RELAY_PIN, OUTPUT) leaves the pin LOW.
PowerOn == [doorOpen |-> FALSE,
            doorOpenStartTime |-> 0,
            lastOperation |-> "",
            entryCount |-> 0,
            exitCount |-> 0,
            manualOperations |-> 0,
            totalOperations |-> 0,
            relayPin |-> "LOW",
            statusLedPin |-> "LOW"]

\* History of the controller, kept for the properties only.  req, wasOpen,
\* autoClosed, before and handled describe the iteration that has just run
\* (before: the state it started in, handled: the state handleClient() left);
\* wifi and registered are the outcomes of setup(); the other fields
\* describe the unlock commands received so far: whether there was one, whether
\* the latest arrived while the door was open and how long after the one
\* before it, whether a lock command followed it, and the parity of their
\* number.
DoorHistory(req, d1, d2) ==
    [req |-> req,
     wasOpen |-> doorOpen,
     autoClosed |-> d1.doorOpen /\ ~d2.doorOpen,
     before |-> DoorState,
     handled |-> d1,
     wifi |-> dg.wifi,
     registered |-> dg.registered,
     unlocked |-> dg.unlocked \/ IsUnlock(req),
     openedAt |-> IF IsUnlock(req) THEN now ELSE dg.openedAt,
     reason |-> IF IsUnlock(req) THEN ReasonOf(req) ELSE dg.reason,
     restarted |-> IF IsUnlock(req) THEN doorOpen ELSE dg.restarted,
     gap |-> IF IsUnlock(req)
             THEN (IF doorOpen THEN USub(now, dg.openedAt) ELSE 0)
             ELSE dg.gap,
     lockSince |-> IF IsUnlock(req) THEN FALSE
                   ELSE IF req = "lock" THEN TRUE ELSE dg.lockSince,
     toggle |-> IF IsUnlock(req) THEN ~dg.toggle ELSE dg.toggle]

DoorLoop_tickFirst(req) ==
    LET d1 == updateDoorStatus(DoorState, now)
        h  == handleClient(d1, req, now)
    IN  /\ phase = "loop"
        /\ SetDoorState(h.door)
        /\ response' = h.body
        /\ dg' = [DoorHistory(req, h.door, h.door)
                     EXCEPT !.autoClosed = doorOpen /\ ~d1.doorOpen]
        /\ phase' = "delay"
        /\ now' = now
        /\ UNCHANGED scanVars

\* One iteration of loop() up to its delay(50): server.handleClient() and then
\* updateDoorStatus(), both at the instant now.
DoorLoop(req) ==
    LET h  == handleClient(DoorState, req, now)
        d2 == updateDoorStatus(h.door, now)
    IN  /\ phase = "loop"
        /\ SetDoorState(d2)
        /\ response' = h.body
        /\ dg' = DoorHistory(req, h.door, d2)
        /\ phase' = "delay"
        /\ now' = now
        /\ UNCHANGED scanVars

\* delay(50) at the end of loop(): the clock moves on to t and nothing else
\* changes; the response of the iteration has been sent.
DoorDelay(t) ==
    /\ phase = "delay"
    /\ now' = t
    /\ phase' = "loop"
    /\ response' = NoResponse
    /\ dg' = [dg EXCEPT !.req = "none", !.wasOpen = FALSE, !.autoClosed = FALSE,
                        !.before = PowerOn, !.handled = PowerOn]
    /\ UNCHANGED <<doorOpen, doorOpenStartTime, lastOperation, entryCount,
                   exitCount, manualOperations, totalOperations, relayPin,
                   statusLedPin>>
    /\ UNCHANGED scanVars

setupHardware(d) == closeDoor(d)

\* connectWiFi(): at most 30 waits of one second, blinking the status LED; the
\* LED ends LOW after the three flashes of a connection and HIGH without one.
connectWiFi(d, connected) ==
    [d EXCEPT !.statusLedPin = IF connected THEN "LOW" ELSE "HIGH"]

\* registerWithServer(): tries six fixed addresses and returns at the first
\* that accepts the connection, or after the last; it writes no global.
registerWithServer(d, registered) == d

setup_noHardware(d, connected, registered) ==
    LET d2 == connectWiFi(d, connected)
        d3 == registerWithServer(d2, registered)
    IN  [d3 EXCEPT !.statusLedPin = "LOW"]

\* setup(): setupHardware(), connectWiFi(), setupWebServer() (registers the
\* handlers), registerWithServer(), and three flashes that leave the LED LOW.
setup(d, connected, registered) ==
    LET d1 == setupHardware(d)
        d2 == connectWiFi(d1, connected)
        d3 == registerWithServer(d2, registered)
    IN  [d3 EXCEPT !.statusLedPin = "LOW"]

NoHistory ==
    [req |-> "none", wasOpen |-> FALSE, autoClosed |-> FALSE,
     unlocked |-> FALSE, openedAt |-> 0, reason |-> "",
     restarted |-> FALSE, gap |-> 0, lockSince |-> FALSE, toggle |-> FALSE,
     before |-> PowerOn, handled |-> PowerOn,
     wifi |-> FALSE, registered |-> FALSE]

DoorBooted(d, connected, registered) ==
    /\ phase = "loop"
    /\ doorOpen = d.doorOpen
    /\ doorOpenStartTime = d.doorOpenStartTime
    /\ lastOperation = d.lastOperation
    /\ entryCount = d.entryCount
    /\ exitCount = d.exitCount
    /\ manualOperations = d.manualOperations
    /\ totalOperations = d.totalOperations
    /\ relayPin = d.relayPin
    /\ statusLedPin = d.statusLedPin
    /\ response = NoResponse
    /\ dg = [NoHistory EXCEPT !.wifi = connected, !.registered = registered]

(***************************************************************************)
(* Door controller: specifications                                         *)
(***************************************************************************)
\* No scanner node is part of the door controller's specifications.
NoScanner ==
    /\ variant = "none"
    /\ net = [own |-> 0]
    /\ lastRFID = ""
    /\ lastScanTime = 0
    /\ piFound = FALSE
    /\ pythonServerIP = 0
    /\ lastDiscoveryAttempt = 0
    /\ sg = [read |-> ""]

InitDoor ==
    /\ now \in DoorBootTimes
    /\ \E connected \in BOOLEAN, registered \in BOOLEAN :
           DoorBooted(setup(PowerOn, connected, registered), connected, registered)
    /\ NoScanner

LoopIdle ==
    /\ phase = "loop"
    /\ DoorLoop("none")

LoopUnlockEntry ==
    /\ totalOperations < MaxOps
    /\ DoorLoop("unlock_entry")

LoopUnlockExit ==
    /\ totalOperations < MaxOps
    /\ DoorLoop("unlock_exit")

LoopLock ==
    /\ phase = "loop"
    /\ DoorLoop("lock")

LoopStatus ==
    /\ phase = "loop"
    /\ DoorLoop("status")

LoopRoot ==
    /\ phase = "loop"
    /\ DoorLoop("root")

LoopDelay ==
    \E t \in Grid :
        /\ now + DOOR_LOOP_DELAY <= t
        /\ t - now <= MaxStep
        /\ DoorDelay(t)

NextDoor ==
    \/ LoopIdle
    \/ LoopUnlockEntry
    \/ LoopUnlockExit
    \/ LoopLock
    \/ LoopStatus
    \/ LoopRoot
    \/ LoopDelay

SpecDoor == InitDoor /\ [][NextDoor]_vars

\* The same controller on the wrapping clock, running for ever: loop() is
\* called again as soon as it returns, so a step is always taken.  setup()
\* has either connected and registered, or done neither.
InitDoorLive ==
    /\ now = 0
    /\ \E online \in BOOLEAN :
           DoorBooted(setup(PowerOn, online, online), online, online)
    /\ NoScanner

LiveLoopIdle ==
    /\ phase = "loop"
    /\ DoorLoop("none")

LiveLoopUnlockEntry ==
    /\ phase = "loop"
    /\ DoorLoop("unlock_entry")

LiveLoopUnlockExit ==
    /\ phase = "loop"
    /\ DoorLoop("unlock_exit")

LiveLoopLock ==
    /\ phase = "loop"
    /\ DoorLoop("lock")

LiveLoopStatus ==
    /\ phase = "loop"
    /\ DoorLoop("status")

LiveLoopDelay ==
    \E t \in LiveGrid :
        /\ USub(t, now) >= DOOR_LOOP_DELAY
        /\ USub(t, now) <= MaxStep
        /\ DoorDelay(t)

NextDoorLive ==
    \/ LiveLoopIdle
    \/ LiveLoopUnlockEntry
    \/ LiveLoopUnlockExit
    \/ LiveLoopLock
    \/ LiveLoopStatus
    \/ LiveLoopDelay

SpecDoorLive == InitDoorLive /\ [][NextDoorLive]_vars /\ WF_vars(NextDoorLive)

\* The controller around the wrap of millis(): it has idled since setup() and
\* the clock stands WrapSpan before its wrap; the clock is sampled at the
\* whole seconds from there and the millisecond before each.
WrapSpan == 8000

WrapStart == ClockMod - WrapSpan

\* The time that has really passed since WrapStart at the clock value t.
Real(t) == USub(t, WrapStart)

WrapGrid ==
    {(WrapStart + k) % ClockMod :
        k \in {j \in 0..(2 * WrapSpan) : j % 1000 = 0 \/ j % 1000 = 999}}

InitDoorWrap ==
    /\ now = WrapStart
    /\ DoorBooted(setup(PowerOn, TRUE, TRUE), TRUE, TRUE)
    /\ NoScanner

WrapLoopIdle ==
    /\ phase = "loop"
    /\ DoorLoop("none")

WrapLoopUnlockEntry ==
    /\ totalOperations < MaxOps
    /\ DoorLoop("unlock_entry")

WrapLoopLock ==
    /\ phase = "loop"
    /\ DoorLoop("lock")

WrapLoopStatus ==
    /\ phase = "loop"
    /\ DoorLoop("status")

WrapLoopDelay ==
    \E t \in WrapGrid :
        /\ Real(t) >= Real(now) + DOOR_LOOP_DELAY
        /\ Real(t) - Real(now) <= MaxStep
        /\ DoorDelay(t)

NextDoorWrap ==
    \/ WrapLoopIdle
    \/ WrapLoopUnlockEntry
    \/ WrapLoopLock
    \/ WrapLoopStatus
    \/ WrapLoopDelay

SpecDoorWrap == InitDoorWrap /\ [][NextDoorWrap]_vars

(***************************************************************************)
(* Scanner nodes: constants and bounds                                     *)
(***************************************************************************)
SCAN_DELAY == 2000

SAME_CARD_DELAY == 5000

DISCOVERY_INTERVAL == 30000

SEND_DELAY == 2000

SCAN_LOOP_DELAY == 100

raspberryPiMAC == "D8:3A:DD:78:01:07"

\* Host addresses .1 to .NHosts of the subnet are probed (the firmware: 254).
NHosts == 4

\* Longest time one run of discovery takes in the bounded specifications.
MaxDisc == 1000

\* Horizon and sampling step of the clock in the discovery specification.
DiscMaxTime == 32000

DiscStep == 8000

\* millis() when setup() returns in the discovery specification.
DiscBoot == 1000

DiscGrid == {t \in 1..DiscMaxTime : t % DiscStep = 0 \/ t = DiscBoot}

Variants == {"entry_oled", "exit_oled", "rfid_entry"}

\* What the serial reader or the MFRC522 delivers; "" is no card this cycle.
Cards == {"A1B2C3D4", "0F9E8D7C"}

Addrs == 1..NHosts

(***************************************************************************)
(* The hosts of the subnet, by what they answer                            *)
(***************************************************************************)
HostKinds == {"closed", "open", "web", "flask", "other_pi", "pi", "pi_lower"}

\* A TCP connection to the server port succeeds.
Accepts(kind) == kind # "closed"

\* The answer to GET /api/device/info: the status code, whether the body
\* holds "device_type":"Raspberry Pi", whether it holds a "mac_address" key,
\* and the value of that key.
InfoReply(kind) ==
    CASE kind = "pi" ->
           [code |-> 200, piType |-> TRUE, macKey |-> TRUE,
            mac |-> "D8:3A:DD:78:01:07"]
      [] kind = "pi_lower" ->
           [code |-> 200, piType |-> TRUE, macKey |-> TRUE,
            mac |-> "d8:3a:dd:78:01:07"]
      [] kind = "other_pi" ->
           [code |-> 200, piType |-> TRUE, macKey |-> TRUE,
            mac |-> "B8:27:EB:11:22:33"]
      [] kind \in {"web", "flask"} ->
           [code |-> 404, piType |-> FALSE, macKey |-> FALSE, mac |-> ""]
      [] OTHER ->
           [code |-> -1, piType |-> FALSE, macKey |-> FALSE, mac |-> ""]

\* The answer to GET /: the status code and whether the page holds
\* "RFID Entry System" or "Flask Server".
RootReply(kind) ==
    CASE kind \in {"pi", "pi_lower", "other_pi", "flask"} ->
           [code |-> 200, flask |-> TRUE]
      [] kind = "web" -> [code |-> 200, flask |-> FALSE]
      [] OTHER -> [code |-> -1, flask |-> FALSE]

\* The answer to "TEST_CONNECTION" on the raw TCP port; "" is no answer.
TcpReply(kind) ==
    CASE kind \in {"pi", "pi_lower", "other_pi"} -> "OK"
      [] kind \in {"web", "flask"} -> "ERR"
      [] OTHER -> ""

\* String::toUpperCase on the strings of the model.
ToUpper(str) ==
    CASE str = "d8:3a:dd:78:01:07" -> "D8:3A:DD:78:01:07"
      [] str = "a1b2c3d4" -> "A1B2C3D4"
      [] str = "0f9e8d7c" -> "0F9E8D7C"
      [] OTHER -> str

(***************************************************************************)
(* Scanner nodes: discovery                                                *)
(***************************************************************************)
\* entry_oled and exit_oled: a TCP connection to the server port.
testPythonServer(kind) == Accepts(kind)

\* exit_oled: the MAC of the device-info answer decides when the answer holds
\* one; otherwise the root page decides.
verifyPiIdentity(kind) ==
    LET info == InfoReply(kind)
        root == RootReply(kind)
    IN  IF info.code = 200 /\ info.piType /\ info.macKey /\ info.mac # ""
        THEN ToUpper(info.mac) = ToUpper(raspberryPiMAC)
        ELSE root.code > 0 /\ root.flask

\* rfid_entry: a TCP connection to the server port.
pingIP(kind) == Accepts(kind)

\* rfid_entry: the host answers "TEST_CONNECTION" with a text that holds "OK".
testPythonServerTCP(kind) == Accepts(kind) /\ TcpReply(kind) = "OK"

\* The test a candidate must pass in the discovery loop of each firmware.
CandidatePasses(v, kind) ==
    CASE v = "entry_oled" -> testPythonServer(kind)
      [] v = "exit_oled"  -> testPythonServer(kind) /\ verifyPiIdentity(kind)
      [] v = "rfid_entry" -> pingIP(kind) /\ testPythonServerTCP(kind)

RECURSIVE ScanFrom_skipsLast(_, _, _)
ScanFrom_skipsLast(v, n, i) ==
    IF i >= NHosts THEN [ip |-> 0, probed |-> <<>>]
    ELSE IF i = n.own THEN ScanFrom_skipsLast(v, n, i + 1)
    ELSE IF CandidatePasses(v, n.hosts[i]) THEN [ip |-> i, probed |-> <<i>>]
    ELSE LET rest == ScanFrom_skipsLast(v, n, i + 1)
         IN  [ip |-> rest.ip, probed |-> <<i>> \o rest.probed]

RECURSIVE ScanFrom_exhaustive(_, _, _)
ScanFrom_exhaustive(v, n, i) ==
    IF i > NHosts THEN [ip |-> 0, probed |-> <<>>]
    ELSE IF i = n.own THEN ScanFrom_exhaustive(v, n, i + 1)
    ELSE LET rest == ScanFrom_exhaustive(v, n, i + 1)
         IN  [ip |-> IF CandidatePasses(v, n.hosts[i]) THEN i ELSE rest.ip,
              probed |-> <<i>> \o rest.probed]

\* The loop "for (int i = 1; i <= 254; i++)" from host number i on: the first
\* candidate that passes (0 for "") and the candidates probed, in order.
RECURSIVE ScanFrom(_, _, _)
ScanFrom(v, n, i) ==
    IF i > NHosts THEN [ip |-> 0, probed |-> <<>>]
    ELSE IF i = n.own THEN ScanFrom(v, n, i + 1)
    ELSE IF CandidatePasses(v, n.hosts[i]) THEN [ip |-> i, probed |-> <<i>>]
    ELSE LET rest == ScanFrom(v, n, i + 1)
         IN  [ip |-> rest.ip, probed |-> <<i>> \o rest.probed]

\* discoverPiByMAC (entry_oled, exit_oled), discoverRaspberryPiIP (rfid_entry).
discoverPiByMAC(v, n) == ScanFrom(v, n, 1).ip

(***************************************************************************)
(* Scanner nodes: the globals and one iteration of loop()                  *)
(***************************************************************************)
ScanState == [lastRFID |-> lastRFID,
              lastScanTime |-> lastScanTime,
              piFound |-> piFound,
              pythonServerIP |-> pythonServerIP,
              lastDiscoveryAttempt |-> lastDiscoveryAttempt]

SetScanState(s) ==
    /\ lastRFID' = s.lastRFID
    /\ lastScanTime' = s.lastScanTime
    /\ piFound' = s.piFound
    /\ pythonServerIP' = s.pythonServerIP
    /\ lastDiscoveryAttempt' = s.lastDiscoveryAttempt

Rediscover_keepsLost(v, n, s, ct) ==
    [s EXCEPT !.lastDiscoveryAttempt = ct,
              !.pythonServerIP = discoverPiByMAC(v, n)]

\* The assignments that follow a run of discovery at the instant ct.
Rediscover(v, n, s, ct) ==
    LET ip == discoverPiByMAC(v, n)
    IN  [s EXCEPT !.lastDiscoveryAttempt = ct,
                  !.pythonServerIP = ip,
                  !.piFound = (ip # 0)]

\* rfid_entry: the condition under which discoverAndConnectToPi() runs
\* discovery at the instant ct.
DiscoveryRuns(s, ct) ==
    ~s.piFound \/ USub(ct, s.lastDiscoveryAttempt) > DISCOVERY_INTERVAL

\* rfid_entry: discoverAndConnectToPi() at the instant ct.
discoverAndConnectToPi(v, n, s, ct) ==
    IF DiscoveryRuns(s, ct) THEN Rediscover(v, n, s, ct) ELSE s

\* Whether the first block of loop() runs discovery at the instant ct.
DiscoveryDue_never(v, s, ct) == FALSE

DiscoveryDue(v, s, ct) ==
    /\ ~s.piFound
    /\ v # "rfid_entry" => USub(ct, s.lastDiscoveryAttempt) > DISCOVERY_INTERVAL

\* The first block of loop(): "if (!piFound) ...".
loopDiscovery(v, n, s, ct) ==
    IF DiscoveryDue(v, s, ct) THEN Rediscover(v, n, s, ct) ELSE s

\* The card that the text a reader delivers stands for: the same card whatever
\* the case of the hexadecimal digits.
CardOf(raw) == ToUpper(raw)

\* rfid_entry builds the UID from the card's bytes and upper-cases it; the
\* serial firmwares take the line the reader sent, trimmed.
readUID(v, card) == IF v = "rfid_entry" THEN ToUpper(card) ELSE card

WithinScanDelay_off(s, ct) == FALSE

\* "if (currentTime - lastScanTime < SCAN_DELAY) return;"
WithinScanDelay(s, ct) == USub(ct, s.lastScanTime) < SCAN_DELAY

SameCardRecently_inclusive(s, uid, ct) ==
    uid = s.lastRFID /\ USub(ct, s.lastScanTime) <= SAME_CARD_DELAY

\* "if (rfidUID == lastRFID && (currentTime - lastScanTime) < 5000) return;"
SameCardRecently(s, uid, ct) ==
    uid = s.lastRFID /\ USub(ct, s.lastScanTime) < SAME_CARD_DELAY

Suppressed(s, uid, ct) == WithinScanDelay(s, ct) \/ SameCardRecently(s, uid, ct)

acceptScan(s, uid, ct) == [s EXCEPT !.lastRFID = uid, !.lastScanTime = ct]

rejectScan_extends(s, uid, ct) == [s EXCEPT !.lastScanTime = ct]

\* A suppressed read: loop() returns without writing a global.
rejectScan(s, uid, ct) == s

\* How a submission can end: an answer that says OK (HTTP 200), another
\* answer, no answer within the timeout, no connection.
Outcomes == {"ok", "error", "timeout", "refused"}

PossibleOutcomes(kind) ==
    CASE kind = "closed" -> {"refused"}
      [] kind = "open" -> {"timeout", "refused"}
      [] OTHER -> Outcomes

\* WiFi.macAddress(): the MAC address of the node's own station interface.
deviceMAC == "5C:CF:7F:A0:B1:C2"

jsonPayload_alwaysEntry(v, ip, uid) ==
    [to |-> ip, unique_id |-> uid, action |-> "entry",
     device_mac |-> deviceMAC]

\* The request sendRFIDToPython writes to host ip: the JSON payload of the
\* HTTP firmwares, and the plain UID of rfid_entry, which carries neither an
\* action nor a MAC ("").
jsonPayload(v, ip, uid) ==
    CASE v = "entry_oled" ->
           [to |-> ip, unique_id |-> uid, action |-> "entry",
            device_mac |-> deviceMAC]
      [] v = "exit_oled" ->
           [to |-> ip, unique_id |-> uid, action |-> "exit",
            device_mac |-> deviceMAC]
      [] v = "rfid_entry" ->
           [to |-> ip, unique_id |-> uid, action |-> "", device_mac |-> ""]

\* The first line of the text handed to displayMessage at each place of
\* sendRFIDToPython and discoverAndConnectToPi.
Message(v, key) ==
    CASE key = "lost" -> "Pi Not Found"
      [] key = "sending" ->
           (CASE v = "entry_oled" -> "Sending..."
              [] v = "exit_oled"  -> "Sending EXIT..."
              [] OTHER            -> "Sending to Pi...")
      [] key = "ok" ->
           (CASE v = "entry_oled" -> "Sent Successfully"
              [] v = "exit_oled"  -> "EXIT Successful"
              [] OTHER            -> "Sent to Pi!")
      [] key = "error" ->
           (IF v = "rfid_entry" THEN "Pi Error" ELSE "Server Error")
      [] key = "timeout" ->
           (IF v = "rfid_entry" THEN "Pi Timeout" ELSE "Connection Failed")
      [] key = "refused" ->
           (IF v = "rfid_entry" THEN "Pi Unreachable" ELSE "Connection Failed")
      [] key = "ready" ->
           (IF v = "exit_oled" THEN "EXIT SCANNER" ELSE "ENTRY SCANNER")
      [] key = "discovering" -> "Discovering Pi..."
      [] key = "found" -> "Pi Found!"
      [] OTHER -> ""

\* What sendRFIDToPython displays when it holds no server: the refusal, and
\* on rfid_entry what the discovery it then runs displays.
LostDisplay(v, n, s, ct) ==
    <<Message(v, "lost")>> \o
    (IF v = "rfid_entry" /\ DiscoveryRuns(s, ct)
     THEN <<Message(v, "discovering"),
            Message(v, IF discoverPiByMAC(v, n) # 0 THEN "found" ELSE "lost")>>
     ELSE <<>>)

\* What sendRFIDToPython displays when it submits: the announcement, the
\* outcome, and after delay(2000) the idle screen.
SentDisplay(v, out) ==
    <<Message(v, "sending"), Message(v, out), Message(v, "ready")>>

sendRFIDToPython_ignoresFound(v, n, s, uid, out, ct) ==
    IF s.pythonServerIP = 0
    THEN [st |-> s, sent |-> FALSE, requests |-> <<>>, waited |-> FALSE,
          rediscovered |-> FALSE, reran |-> FALSE,
          display |-> LostDisplay(v, n, s, ct)]
    ELSE [st |-> IF out \in {"timeout", "refused"}
                 THEN [s EXCEPT !.piFound = FALSE] ELSE s,
          sent |-> TRUE,
          requests |-> <<jsonPayload(v, s.pythonServerIP, uid)>>,
          waited |-> TRUE, rediscovered |-> FALSE, reran |-> FALSE,
          display |-> SentDisplay(v, out)]

sendRFIDToPython_keepsFound(v, n, s, uid, out, ct) ==
    IF ~s.piFound \/ s.pythonServerIP = 0
    THEN [st |-> IF v = "rfid_entry" THEN discoverAndConnectToPi(v, n, s, ct)
                 ELSE s,
          sent |-> FALSE, requests |-> <<>>, waited |-> FALSE,
          rediscovered |-> v = "rfid_entry",
          reran |-> v = "rfid_entry" /\ DiscoveryRuns(s, ct),
          display |-> LostDisplay(v, n, s, ct)]
    ELSE [st |-> s,
          sent |-> TRUE,
          requests |-> <<jsonPayload(v, s.pythonServerIP, uid)>>,
          waited |-> TRUE, rediscovered |-> FALSE, reran |-> FALSE,
          display |-> SentDisplay(v, out)]

sendRFIDToPython_retries(v, n, s, uid, out, ct) ==
    IF ~s.piFound \/ s.pythonServerIP = 0
    THEN [st |-> IF v = "rfid_entry" THEN discoverAndConnectToPi(v, n, s, ct)
                 ELSE s,
          sent |-> FALSE, requests |-> <<>>, waited |-> FALSE,
          rediscovered |-> v = "rfid_entry",
          reran |-> v = "rfid_entry" /\ DiscoveryRuns(s, ct),
          display |-> LostDisplay(v, n, s, ct)]
    ELSE [st |-> IF out \in {"timeout", "refused"}
                 THEN [s EXCEPT !.piFound = FALSE] ELSE s,
          sent |-> TRUE,
          requests |-> IF out \in {"timeout", "refused"}
                       THEN <<jsonPayload(v, s.pythonServerIP, uid),
                              jsonPayload(v, s.pythonServerIP, uid)>>
                       ELSE <<jsonPayload(v, s.pythonServerIP, uid)>>,
          waited |-> TRUE, rediscovered |-> FALSE, reran |-> FALSE,
          display |-> SentDisplay(v, out)]

sendRFIDToPython_forgetsOnFailure(v, n, s, uid, out, ct) ==
    IF ~s.piFound \/ s.pythonServerIP = 0
    THEN [st |-> [(IF v = "rfid_entry"
                   THEN discoverAndConnectToPi(v, n, s, ct) ELSE s)
                      EXCEPT !.lastRFID = "", !.lastScanTime = 0],
          sent |-> FALSE, requests |-> <<>>, waited |-> FALSE,
          rediscovered |-> v = "rfid_entry",
          reran |-> v = "rfid_entry" /\ DiscoveryRuns(s, ct),
          display |-> LostDisplay(v, n, s, ct)]
    ELSE [st |-> IF out \in {"timeout", "refused"}
                 THEN [s EXCEPT !.piFound = FALSE, !.lastRFID = "",
                                !.lastScanTime = 0]
                 ELSE s,
          sent |-> TRUE,
          requests |-> <<jsonPayload(v, s.pythonServerIP, uid)>>,
          waited |-> TRUE, rediscovered |-> FALSE, reran |-> FALSE,
          display |-> SentDisplay(v, out)]

sendRFIDToPython_silentWhenLost(v, n, s, uid, out, ct) ==
    IF ~s.piFound \/ s.pythonServerIP = 0
    THEN [st |-> IF v = "rfid_entry" THEN discoverAndConnectToPi(v, n, s, ct)
                 ELSE s,
          sent |-> FALSE, requests |-> <<>>, waited |-> FALSE,
          rediscovered |-> v = "rfid_entry",
          reran |-> v = "rfid_entry" /\ DiscoveryRuns(s, ct),
          display |-> <<>>]
    ELSE [st |-> IF out \in {"timeout", "refused"}
                 THEN [s EXCEPT !.piFound = FALSE] ELSE s,
          sent |-> TRUE,
          requests |-> <<jsonPayload(v, s.pythonServerIP, uid)>>,
          waited |-> TRUE, rediscovered |-> FALSE, reran |-> FALSE,
          display |-> SentDisplay(v, out)]

sendRFIDToPython_clearsAddress(v, n, s, uid, out, ct) ==
    IF ~s.piFound \/ s.pythonServerIP = 0
    THEN [st |-> IF v = "rfid_entry" THEN discoverAndConnectToPi(v, n, s, ct)
                 ELSE [s EXCEPT !.pythonServerIP = 0],
          sent |-> FALSE, requests |-> <<>>, waited |-> FALSE,
          rediscovered |-> v = "rfid_entry",
          reran |-> v = "rfid_entry" /\ DiscoveryRuns(s, ct),
          display |-> LostDisplay(v, n, s, ct)]
    ELSE [st |-> IF out \in {"timeout", "refused"}
                 THEN [s EXCEPT !.piFound = FALSE] ELSE s,
          sent |-> TRUE,
          requests |-> <<jsonPayload(v, s.pythonServerIP, uid)>>,
          waited |-> TRUE, rediscovered |-> FALSE, reran |-> FALSE,
          display |-> SentDisplay(v, out)]

sendRFIDToPython_dropsOnError(v, n, s, uid, out, ct) ==
    IF ~s.piFound \/ s.pythonServerIP = 0
    THEN [st |-> IF v = "rfid_entry" THEN discoverAndConnectToPi(v, n, s, ct)
                 ELSE s,
          sent |-> FALSE, requests |-> <<>>, waited |-> FALSE,
          rediscovered |-> v = "rfid_entry",
          reran |-> v = "rfid_entry" /\ DiscoveryRuns(s, ct),
          display |-> LostDisplay(v, n, s, ct)]
    ELSE [st |-> IF out # "ok" THEN [s EXCEPT !.piFound = FALSE] ELSE s,
          sent |-> TRUE,
          requests |-> <<jsonPayload(v, s.pythonServerIP, uid)>>,
          waited |-> TRUE, rediscovered |-> FALSE, reran |-> FALSE,
          display |-> SentDisplay(v, out)]

\* sendRFIDToPython at the instant ct, the submission ending as out: the
\* globals after it, whether a request went out, the requests written,
\* whether delay(2000) ran, whether discoverAndConnectToPi was called
\* (rfid_entry, no server held) and whether it ran discovery, and the
\* messages displayed, in order.
sendRFIDToPython(v, n, s, uid, out, ct) ==
    IF ~s.piFound \/ s.pythonServerIP = 0
    THEN [st |-> IF v = "rfid_entry" THEN discoverAndConnectToPi(v, n, s, ct)
                 ELSE s,
          sent |-> FALSE, requests |-> <<>>, waited |-> FALSE,
          rediscovered |-> v = "rfid_entry",
          reran |-> v = "rfid_entry" /\ DiscoveryRuns(s, ct),
          display |-> LostDisplay(v, n, s, ct)]
    ELSE [st |-> IF out \in {"timeout", "refused"}
                 THEN [s EXCEPT !.piFound = FALSE] ELSE s,
          sent |-> TRUE,
          requests |-> <<jsonPayload(v, s.pythonServerIP, uid)>>,
          waited |-> TRUE, rediscovered |-> FALSE, reran |-> FALSE,
          display |-> SentDisplay(v, out)]

NotSent(s) ==
    [st |-> s, sent |-> FALSE, requests |-> <<>>, waited |-> FALSE,
     rediscovered |-> FALSE, reran |-> FALSE, display |-> <<>>]

\* The globals' initialisers.
ScanPowerOn == [lastRFID |-> "", lastScanTime |-> 0, piFound |-> FALSE,
                pythonServerIP |-> 0, lastDiscoveryAttempt |-> 0]

\* The time of the latest accepted scan before this one, -1 for none.
LatestAccept == IF sg.lastCard = "" THEN -1 ELSE sg.acc[sg.lastCard]

\* History of the scanner, kept for the properties only.  The first group
\* describes the iteration that has just run: the card read ("" for none),
\* when, whether it was accepted, whether a request went out, whether loop()
\* returned before its delay(100), and, as they were before the read, the
\* time the same card was last accepted, the time and card of the latest
\* accepted scan, whether another card has been read since and whether the
\* same card has been read again since, SCAN_DELAY or more after.  The second
\* group describes the reads so far: when each card was last accepted (-1 for
\* never), the card accepted last, and whether a different card, or the same
\* card SCAN_DELAY or more later, has been read since then.
\*   For discovery and submission, of the iteration that has just run: when
\* it started, whether its first block ran discovery, whether
\* sendRFIDToPython did, the candidates the last of these runs probed and
\* what it returned, whether a server was held when sendRFIDToPython was
\* called, the globals at that call (atSend), the messages it displayed,
\* the requests written and how the submission ended ("" for none),
\* whether the iteration before ended with a failed submission, when
\* discovery had last run from loop() before this iteration (-1 for never),
\* when it had last found a server, and whether the node held, when the
\* iteration started, a server found more
\* than DISCOVERY_INTERVAL earlier.  Of the run so far: whether the last
\* submission failed, when discovery last ran from loop() and when it last
\* found a server, setup() included (-1 for never), and how the handling of
\* the latest accepted scan ended (lastEnd: "skipped" without a server,
\* "failed" on a timeout or without a connection, "answered" otherwise, "" for
\* no scan yet; prevEnd is its value before the read of this iteration).
ScanHistory(card, uid, tRead, accepted, r, s0, s2, out) ==
    LET ran == DiscoveryDue(variant, s0, now)
        scan == ScanFrom(variant, net, 1)
        failed == r.sent /\ out \in {"timeout", "refused"}
    IN
    [startAt |-> now,
     ran |-> ran,
     reran |-> r.reran,
     probed |-> IF ran \/ r.reran THEN scan.probed ELSE <<>>,
     returned |-> IF ran \/ r.reran THEN scan.ip ELSE 0,
     foundAtSend |-> accepted /\ s2.piFound /\ s2.pythonServerIP # 0,
     atSend |-> IF accepted THEN s2 ELSE ScanPowerOn,
     display |-> r.display,
     requests |-> r.requests,
     out |-> IF r.sent THEN out ELSE "",
     prevFailed |-> sg.failed,
     prevDiscAt |-> sg.discAt,
     prevVerifiedAt |-> sg.verifiedAt,
     overdue |-> /\ s0.piFound
                 /\ sg.verifiedAt >= 0
                 /\ USub(now, sg.verifiedAt) > DISCOVERY_INTERVAL,
     failed |-> failed,
     prevEnd |-> IF card = "" THEN "" ELSE sg.lastEnd,
     lastEnd |-> IF ~accepted THEN sg.lastEnd
                 ELSE IF ~r.sent THEN "skipped"
                 ELSE IF failed THEN "failed" ELSE "answered",
     discAt |-> IF r.reran THEN tRead ELSE IF ran THEN now ELSE sg.discAt,
     verifiedAt |-> IF r.reran /\ r.st.piFound THEN tRead
                    ELSE IF ran /\ s2.piFound THEN now
                    ELSE sg.verifiedAt,
     card |-> card,
     read |-> uid,
     readAt |-> IF card = "" THEN 0 ELSE tRead,
     accepted |-> accepted,
     sent |-> r.sent,
     early |-> card # "" /\ ~accepted,
     prevOwn |-> IF card = "" THEN -1 ELSE sg.acc[card],
     prevAny |-> IF card = "" THEN -1 ELSE LatestAccept,
     prevCard |-> IF card = "" THEN "" ELSE sg.lastCard,
     prevOther |-> card # "" /\ sg.other,
     prevRepeat |-> card # "" /\ sg.repeat,
     acc |-> IF accepted THEN [sg.acc EXCEPT ![card] = tRead] ELSE sg.acc,
     lastCard |-> IF accepted THEN card ELSE sg.lastCard,
     other |-> IF accepted THEN FALSE
               ELSE sg.other \/ (card # "" /\ card # sg.lastCard),
     repeat |-> IF accepted THEN FALSE
                ELSE sg.repeat \/ (/\ card # ""
                                   /\ card = sg.lastCard
                                   /\ tRead - LatestAccept >= SCAN_DELAY)]

\* One iteration of loop() up to its delay(100): the discovery block at the
\* instant now, the text card delivered by the reader at tRead ("" for no
\* card), sendRFIDToPython ending at tEnd.
ScanLoop(card, out, tRead, tEnd) ==
    LET s0 == ScanState
        ran == DiscoveryDue(variant, s0, now)
        s1 == loopDiscovery(variant, net, s0, now)
        uid == readUID(variant, card)
        accepted == card # "" /\ ~Suppressed(s1, uid, tRead)
        s2 == IF accepted THEN acceptScan(s1, uid, tRead)
              ELSE IF card # "" THEN rejectScan(s1, uid, tRead)
              ELSE s1
        r  == IF accepted
              THEN sendRFIDToPython(variant, net, s2, uid, out, tRead)
              ELSE NotSent(s2)
    IN  /\ phase = "loop"
        /\ IF ran THEN USub(tRead, now) <= MaxDisc ELSE tRead = now
        /\ IF r.sent
           THEN out \in PossibleOutcomes(net.hosts[s2.pythonServerIP])
           ELSE out = "ok"
        /\ IF r.waited
           THEN /\ USub(tEnd, tRead) >= SEND_DELAY
                /\ USub(tEnd, tRead) <= MaxStep
           ELSE IF r.rediscovered THEN USub(tEnd, tRead) <= MaxDisc
           ELSE tEnd = tRead
        /\ SetScanState(r.st)
        /\ sg' = ScanHistory(CardOf(card), uid, tRead, accepted, r, s0, s2, out)
        /\ now' = tEnd
        /\ phase' = "delay"
        /\ UNCHANGED <<variant, net, doorVars>>

\* delay(100) at the end of loop(), which a suppressed read skips (loop()
\* returns at once and is called again): the clock moves on to t.
ScanDelay(t) ==
    /\ phase = "delay"
    /\ USub(t, now) >= (IF sg.early THEN 0 ELSE SCAN_LOOP_DELAY)
    /\ USub(t, now) <= MaxStep
    /\ now' = t
    /\ phase' = "loop"
    /\ sg' = [sg EXCEPT !.card = "", !.read = "", !.readAt = 0,
                        !.accepted = FALSE, !.sent = FALSE, !.early = FALSE,
                        !.prevOwn = -1, !.prevAny = -1, !.prevCard = "",
                        !.prevOther = FALSE, !.prevRepeat = FALSE,
                        !.startAt = 0, !.ran = FALSE, !.reran = FALSE,
                        !.probed = <<>>, !.returned = 0,
                        !.foundAtSend = FALSE, !.requests = <<>>,
                        !.atSend = ScanPowerOn, !.display = <<>>,
                        !.prevEnd = "",
                        !.out = "", !.prevFailed = FALSE,
                        !.prevDiscAt = -1, !.prevVerifiedAt = -1,
                        !.overdue = FALSE]
    /\ UNCHANGED <<variant, net, lastRFID, lastScanTime, piFound,
                   pythonServerIP, lastDiscoveryAttempt, doorVars>>

\* setup(): the serial firmwares assign discoverPiByMAC()'s result and set
\* piFound when it is not empty; rfid_entry calls discoverAndConnectToPi().
setupScanner(v, n, s, ct) ==
    IF v = "rfid_entry" THEN discoverAndConnectToPi(v, n, s, ct)
    ELSE LET ip == discoverPiByMAC(v, n)
         IN  [s EXCEPT !.pythonServerIP = ip, !.piFound = (ip # 0)]

NoReads ==
    [card |-> "", read |-> "", readAt |-> 0, accepted |-> FALSE,
     sent |-> FALSE, early |-> FALSE, prevOwn |-> -1, prevAny |-> -1,
     prevCard |-> "", prevOther |-> FALSE, prevRepeat |-> FALSE,
     acc |-> [c \in Cards |-> -1], lastCard |-> "", other |-> FALSE,
     repeat |-> FALSE,
     startAt |-> 0, ran |-> FALSE, reran |-> FALSE, probed |-> <<>>,
     returned |-> 0, foundAtSend |-> FALSE, requests |-> <<>>, out |-> "",
     atSend |-> ScanPowerOn, display |-> <<>>,
     prevEnd |-> "", lastEnd |-> "",
     prevFailed |-> FALSE, prevDiscAt |-> -1, prevVerifiedAt |-> -1,
     overdue |-> FALSE,
     failed |-> FALSE, discAt |-> -1, verifiedAt |-> -1]

\* The subnets of the model: the node's own address, and what kind of host
\* each other address is.
Nets ==
    {n \in [own : {1, 2}, hosts : [Addrs -> HostKinds]] :
        n.hosts[n.own] = "closed"}

\* The state in which loop() first runs on network n, setup() having run
\* discovery at the instant ct.
ScanBooted(v, n, ct) ==
    LET s == setupScanner(v, n, ScanPowerOn, ct)
    IN  /\ phase = "loop"
        /\ variant = v
        /\ net = n
        /\ lastRFID = s.lastRFID
        /\ lastScanTime = s.lastScanTime
        /\ piFound = s.piFound
        /\ pythonServerIP = s.pythonServerIP
        /\ lastDiscoveryAttempt = s.lastDiscoveryAttempt
        /\ sg = [NoReads EXCEPT !.verifiedAt = IF s.piFound THEN ct ELSE -1]
        /\ DoorBooted(setup(PowerOn, TRUE, TRUE), TRUE, TRUE)

(***************************************************************************)
(* Scanner nodes: specifications                                           *)
(***************************************************************************)
\* Card reads and their suppression, on a subnet without a server and on one
\* with the server at .2.
ScanMaxTime == 8000

ScanGrid == {t \in 0..ScanMaxTime : t % 1000 = 0 \/ t % 1000 = 999}

ScanBootTimes == {1000}

\* The instants of grid G at which an iteration that starts now can read.
ReadTimes(G) == {t \in G : now <= t /\ t - now <= MaxDisc}

\* The instants of grid G at which an iteration that read at tRead can end.
EndTimes(G, tRead) == {t \in G : tRead <= t /\ t - tRead <= MaxStep}

ScanNets ==
    {n \in Nets : /\ n.own = 1
                  /\ n.hosts[2] \in {"closed", "pi"}
                  /\ \A i \in Addrs : i > 2 => n.hosts[i] = "closed"}

InitScan ==
    \E v \in Variants, n \in ScanNets :
        /\ now \in ScanBootTimes
        /\ ScanBooted(v, n, now)

ScanIdle ==
    \E tRead \in ReadTimes(ScanGrid) :
        /\ phase = "loop"
        /\ ScanLoop("", "ok", tRead, tRead)

ScanCard ==
    \E card \in Cards, out \in Outcomes, tRead \in ReadTimes(ScanGrid) :
      \E tEnd \in EndTimes(ScanGrid, tRead) :
        /\ phase = "loop"
        /\ ScanLoop(card, out, tRead, tEnd)

ScanWait ==
    \E t \in ScanGrid :
        /\ phase = "delay"
        /\ ScanDelay(t)

NextScan == ScanIdle \/ ScanCard \/ ScanWait

SpecScan == InitScan /\ [][NextScan]_vars

\* Discovery on every subnet of the model where at most MaxLive hosts answer,
\* on a coarse clock that runs past DISCOVERY_INTERVAL.
MaxLive == 2

DiscNets ==
    {n \in Nets : Cardinality({i \in Addrs : n.hosts[i] # "closed"}) <= MaxLive}

InitDisc ==
    \E v \in Variants, n \in DiscNets :
        /\ now = DiscBoot
        /\ ScanBooted(v, n, now)

DiscIdle ==
    \E tRead \in ReadTimes(DiscGrid) :
        /\ phase = "loop"
        /\ ScanLoop("", "ok", tRead, tRead)

\* One card, delivered by the reader with its letters in either case.
RawReads == {"A1B2C3D4", "a1b2c3d4"}

DiscCard ==
    \E card \in RawReads, out \in Outcomes, tRead \in ReadTimes(DiscGrid) :
      \E tEnd \in EndTimes(DiscGrid, tRead) :
        /\ phase = "loop"
        /\ ScanLoop(card, out, tRead, tEnd)

DiscWait ==
    \E t \in DiscGrid :
        /\ phase = "delay"
        /\ ScanDelay(t)

NextDisc == DiscIdle \/ DiscCard \/ DiscWait

SpecDisc == InitDisc /\ [][NextDisc]_vars

\* The scanners for ever, on a clock that wraps round: every iteration of
\* loop() takes time, and loop() is called again and again.
LiveTimes(t, lo, hi) ==
    {u \in LiveGrid : USub(u, t) >= lo /\ USub(u, t) <= hi}

InitScanLive ==
    \E v \in Variants, n \in ScanNets :
        /\ now = 0
        /\ ScanBooted(v, n, now)

LiveScanIdle ==
    /\ phase = "loop"
    /\ ScanLoop("", "ok", now, now)

LiveScanCard ==
    \E out \in Outcomes, tEnd \in LiveTimes(now, 0, MaxStep) :
        /\ phase = "loop"
        /\ ScanLoop("A1B2C3D4", out, now, tEnd)

LiveScanWait ==
    \E t \in LiveTimes(now, 1, MaxStep) :
        /\ phase = "delay"
        /\ ScanDelay(t)

NextScanLive == LiveScanIdle \/ LiveScanCard \/ LiveScanWait

SpecScanLive ==
    InitScanLive /\ [][NextScanLive]_vars /\ WF_vars(NextScanLive)

(***************************************************************************)
(* rfid_entry: the wait for the server's reply                             *)
(***************************************************************************)
REPLY_TIMEOUT == 5000

TEST_TIMEOUT == 2000

WAIT_STEP == 10

\* "unsigned long timeout = millis() + limit;
\*  while (client.available() == 0 && millis() < timeout) delay(10);"
\* entered at the clock value t0, the reply becoming available replyAfter ms
\* after t0 (never when negative).  The loop condition is evaluated every
\* WAIT_STEP ms; StopsAt(e) says that it is false e ms after t0.
Polls(limit) == {k * WAIT_STEP : k \in 0..(limit \div WAIT_STEP)}

StopsAt(t0, limit, replyAfter, e) ==
    LET timeout == (t0 + limit) % ClockMod
        available == replyAfter >= 0 /\ replyAfter <= e
    IN  ~(~available /\ (t0 + e) % ClockMod < timeout)

\* Whether a reply is available when the loop ends, and after how long: the
\* first poll at which the condition is false.
waitForReply(t0, limit, replyAfter) ==
    LET stops == {e \in Polls(limit) : StopsAt(t0, limit, replyAfter, e)}
        waited == CHOOSE e \in stops : \A f \in stops : e <= f
    IN  [got |-> replyAfter >= 0 /\ replyAfter <= waited, waited |-> waited]

\* The clock values at which the wait is entered, by their distance from the
\* wrap of the clock, and the delays of the reply (-1: no reply).
WaitOffsets == {10, 1000, 2000, 2010, 3000, 5000, 5010, 6000, 20000, 40000}

WaitGrid == {ClockMod - k : k \in WaitOffsets}

ReplyDelays == {-1, 0, 10, 500, 1990, 4990, 6000}

\* rfid_entry holds the server at .2 and is about to wait for a reply.
InitWait ==
    \E t \in WaitGrid, replyAfter \in ReplyDelays :
        /\ now = t
        /\ phase = "loop"
        /\ variant = "rfid_entry"
        /\ net = [own |-> 1,
                  hosts |-> [i \in Addrs |-> IF i = 2 THEN "pi" ELSE "closed"]]
        /\ lastRFID = "A1B2C3D4"
        /\ lastScanTime = t
        /\ piFound = TRUE
        /\ pythonServerIP = 2
        /\ lastDiscoveryAttempt = 0
        /\ sg = [kind |-> "", limit |-> 0, replyAfter |-> replyAfter,
                 got |-> FALSE, waited |-> 0]
        /\ DoorBooted(setup(PowerOn, TRUE, TRUE), TRUE, TRUE)

\* sendRFIDToPython has connected and written the UID at the instant now.
WaitSubmit ==
    LET w == waitForReply(now, REPLY_TIMEOUT, sg.replyAfter)
        r == sendRFIDToPython(variant, net, ScanState, lastRFID,
                              IF w.got THEN "ok" ELSE "timeout", now)
    IN  /\ phase = "loop"
        /\ SetScanState(r.st)
        /\ sg' = [sg EXCEPT !.kind = "submit", !.limit = REPLY_TIMEOUT,
                            !.got = w.got, !.waited = w.waited]
        /\ phase' = "delay"
        /\ now' = (now + w.waited) % ClockMod
        /\ UNCHANGED <<variant, net, doorVars>>

\* testPythonServer has connected and written "TEST_CONNECTION" at now.
WaitTest ==
    LET w == waitForReply(now, TEST_TIMEOUT, sg.replyAfter)
    IN  /\ phase = "loop"
        /\ sg' = [sg EXCEPT !.kind = "test", !.limit = TEST_TIMEOUT,
                            !.got = w.got, !.waited = w.waited]
        /\ phase' = "delay"
        /\ now' = (now + w.waited) % ClockMod
        /\ UNCHANGED <<variant, net, lastRFID, lastScanTime, piFound,
                       pythonServerIP, lastDiscoveryAttempt, doorVars>>

NextWait == WaitSubmit \/ WaitTest

SpecWait == InitWait /\ [][NextWait]_vars

(***************************************************************************)
(* rfid_entry: the credential built from the UID bytes                     *)
(***************************************************************************)
\* String(b, HEX): the digits of b in base 16, without a leading zero, and
\* what toUpperCase() makes of them.
HexDigits == <<"0", "1", "2", "3", "4", "5", "6", "7", "8", "9",
               "a", "b", "c", "d", "e", "f">>

UpperHexDigits == <<"0", "1", "2", "3", "4", "5", "6", "7", "8", "9",
                    "A", "B", "C", "D", "E", "F">>

StringHEX(b) ==
    IF b < 16 THEN HexDigits[b + 1]
    ELSE HexDigits[(b \div 16) + 1] \o HexDigits[(b % 16) + 1]

\* toUpperCase() acts on each character, so on each byte's digits.
UpperStringHEX(b) ==
    IF b < 16 THEN UpperHexDigits[b + 1]
    ELSE UpperHexDigits[(b \div 16) + 1] \o UpperHexDigits[(b % 16) + 1]

\* "for (byte i = 0; i < mfrc522.uid.size; i++)
\*      rfidUID += String(mfrc522.uid.uidByte[i], HEX);
\*  rfidUID.toUpperCase();" from byte i on.
RECURSIVE uidStringFrom(_, _)
uidStringFrom(uid, i) ==
    IF i > Len(uid) THEN ""
    ELSE UpperStringHEX(uid[i]) \o uidStringFrom(uid, i + 1)

uidString(uid) == uidStringFrom(uid, 1)

\* The UIDs of the model: UidLen bytes, each 0x01, 0x03, 0x12 or 0x23.
UidLen == 4

UidBytes == {1, 3, 18, 35}

Uids == [1..UidLen -> UidBytes]

\* The reader has selected a card with UID uid.
InitUid ==
    \E uid \in Uids :
        /\ now = SAME_CARD_DELAY
        /\ phase = "loop"
        /\ variant = "rfid_entry"
        /\ net = [own |-> 1, hosts |-> [i \in Addrs |-> "closed"]]
        /\ lastRFID = ""
        /\ lastScanTime = 0
        /\ piFound = FALSE
        /\ pythonServerIP = 0
        /\ lastDiscoveryAttempt = 0
        /\ sg = [uid |-> uid, read |-> ""]
        /\ DoorBooted(setup(PowerOn, TRUE, TRUE), TRUE, TRUE)

\* loop() builds the credential of the card and accepts the scan.
UidRead ==
    LET rfidUID == uidString(sg.uid)
    IN  /\ phase = "loop"
        /\ SetScanState(acceptScan(ScanState, rfidUID, now))
        /\ sg' = [sg EXCEPT !.read = rfidUID]
        /\ phase' = "delay"
        /\ UNCHANGED <<now, variant, net, doorVars>>

NextUid == UidRead

SpecUid == InitUid /\ [][NextUid]_vars

(***************************************************************************)
(* Scanner nodes: properties                                               *)
(***************************************************************************)
\* The time between the read of the iteration that has just run and the last
\* acceptance of the same card, and of any card.
SinceOwn == sg.readAt - sg.prevOwn

SinceAny == sg.readAt - sg.prevAny

\* C7: for every credential c and every sequence of reads, reads of other
\* credentials in between included, a read of c less than 5000 ms after an
\* accepted read of c is not accepted: two reads of c less than 5000 ms
\* apart give at most one accepted scan.
C7_SameCardOncePerWindow ==
    (sg.card # "" /\ sg.accepted /\ sg.prevOwn >= 0)
        => SinceOwn >= SAME_CARD_DELAY

\* C8: a card read less than SCAN_DELAY after the last accepted scan is
\* suppressed (not accepted, nothing submitted), whether it is the same card
\* or another one.
C8_GlobalWindow ==
    (sg.card # "" /\ sg.prevAny >= 0 /\ SinceAny < SCAN_DELAY)
        => (~sg.accepted /\ ~sg.sent)

\* A different card read 999 ms after an accepted scan has been suppressed.
C8_Witness ==
    /\ sg.card # ""
    /\ sg.prevAny >= 0
    /\ sg.prevCard # sg.card
    /\ SinceAny = 999
    /\ ~sg.accepted

\* C9: with no other card read in between, a repeat read of the card accepted
\* last is suppressed when it comes at least 2000 ms and less than 5000 ms
\* after that acceptance, and accepted when it comes 5000 ms or more after.
C9_RepeatWindow ==
    (/\ sg.card # ""
     /\ sg.prevCard = sg.card
     /\ ~sg.prevOther
     /\ SinceOwn >= SCAN_DELAY)
        => (sg.accepted <=> SinceOwn >= SAME_CARD_DELAY)

\* A card was accepted, read again 2000 ms or more later and suppressed, and
\* accepted again exactly 5000 ms after its first acceptance.
C9_Witness ==
    /\ sg.card # ""
    /\ sg.prevCard = sg.card
    /\ ~sg.prevOther
    /\ sg.prevRepeat
    /\ SinceOwn = SAME_CARD_DELAY
    /\ sg.accepted

\* The MAC address a host reports when asked for its identity, "" for none.
ReportedMAC(kind) ==
    LET info == InfoReply(kind)
    IN  IF info.code = 200 /\ info.macKey THEN info.mac ELSE ""

\* C10: in every firmware, the server location the node holds is the address
\* of a host whose reported MAC is raspberryPiMAC (letter case apart).
C10_NoFalseBinding ==
    (piFound /\ pythonServerIP # 0)
        => ToUpper(ReportedMAC(net.hosts[pythonServerIP]))
               = ToUpper(raspberryPiMAC)

\* The submission of the iteration that has just run ended Unreachable.
Unreachable == sg.out \in {"timeout", "refused"}

\* Discovery ran in the iteration that has just run.
Discovered == sg.ran \/ sg.reran

\* C11: a run of discovery probes the host addresses in ascending order and
\* never its own; it returns the first candidate that passes and probes
\* none after it; it returns nothing only when every candidate failed.
C11_FirstMatchWins ==
    Discovered =>
        LET p == sg.probed
            passes(i) == CandidatePasses(variant, net.hosts[i])
        IN  /\ \A k \in 1..(Len(p) - 1) : p[k] < p[k + 1]
            /\ \A k \in 1..Len(p) : p[k] \in Addrs /\ p[k] # net.own
            /\ \A i \in Addrs :
                 (i # net.own /\ (sg.returned = 0 \/ i <= sg.returned))
                     => \E k \in 1..Len(p) : p[k] = i
            /\ \A k \in 1..Len(p) :
                 passes(p[k]) <=> (k = Len(p) /\ sg.returned = p[k])
            /\ sg.returned # 0 => (Len(p) > 0 /\ p[Len(p)] = sg.returned)
            /\ pythonServerIP = sg.returned

\* Discovery probed .1, which failed, skipped the node's own address .2,
\* returned .3 and left .4, which would have passed, unprobed.
C11_Witness ==
    /\ Discovered
    /\ net.own = 2
    /\ sg.probed = <<1, 3>>
    /\ sg.returned = 3
    /\ CandidatePasses(variant, net.hosts[4])

C13_UnreachableInvalidates ==
    /\ [](Unreachable => ~piFound)
    /\ [](sg.requests # <<>> => sg.foundAtSend)
    /\ [][(~piFound /\ piFound')
            => (/\ sg'.ran \/ sg'.reran
                /\ sg'.returned # 0
                /\ pythonServerIP' = sg'.returned)]_vars

\* A submission timed out and the node is searching, the address still stored.
C13_Witness ==
    /\ sg.out = "timeout"
    /\ ~piFound
    /\ pythonServerIP # 0

\* C14: an iteration of loop() sends at most one request, only for the scan
\* it accepted itself and carrying that scan's credential: an event whose
\* submission failed, or that found no server, is never sent later.
C14_AtMostOneRequest ==
    /\ Len(sg.requests) <= 1
    /\ sg.requests # <<>> =>
         (sg.accepted /\ sg.requests[1].unique_id = sg.read)

\* The iteration after a failed submission found the server again and sent
\* nothing.
C14_Witness ==
    /\ sg.prevFailed
    /\ Discovered
    /\ piFound
    /\ sg.requests = <<>>

\* C15: while the node is searching, a run of discovery from loop() comes at
\* least DISCOVERY_INTERVAL after the run before it.
C15_BackoffBetweenDiscoveries ==
    (sg.ran /\ sg.prevDiscAt >= 0 /\ sg.prevVerifiedAt # sg.prevDiscAt)
        => sg.startAt - sg.prevDiscAt >= DISCOVERY_INTERVAL

C17_PeriodicReverification ==
    sg.overdue => (Discovered \/ ~piFound)

\* Some candidate of the subnet passes the firmware's tests.
ServerPresent ==
    \E i \in Addrs :
        i # net.own /\ CandidatePasses(variant, net.hosts[i])

\* C18: the control loop never stops, and as long as the node has no server
\* it runs discovery again and again: at all times, later the node has a
\* server or runs discovery, and later loop() is entered again.
C18_KeepsSearching ==
    /\ []<>(piFound \/ Discovered)
    /\ []<>(phase = "loop")

\* On a subnet without a server, discovery has run from loop(), not for the
\* first time, found nothing, and the card read in the same iteration was
\* accepted.
C18_Witness ==
    /\ ~ServerPresent
    /\ sg.ran
    /\ sg.prevDiscAt >= 0
    /\ sg.returned = 0
    /\ sg.accepted

\* C19: when the node has lost its server and a server that passes the
\* tests is on the subnet, the node eventually holds a location again,
\* unless a submission to the server fails once more (the server is not
\* reachable yet).
C19_FindsServerAgain ==
    (~piFound /\ ServerPresent) ~> (piFound \/ Unreachable)

\* After a failed submission, discovery from loop() has found the server
\* again and the scan accepted in the same iteration was submitted.
C19_Witness ==
    /\ sg.ran
    /\ piFound
    /\ sg.verifiedAt = sg.startAt
    /\ Len(sg.requests) = 1
    /\ sg.out = "ok"

SinceUnlock == USub(now, dg.openedAt)

\* The state right after an iteration's updateDoorStatus(), with an unlock
\* command received and no lock command after the latest one.
TickedAfterUnlock == phase = "delay" /\ dg.unlocked /\ ~dg.lockSince

\* C1: after setupHardware the relay pin is LOW (unlock asserted) exactly when
\* doorOpen, in every reachable state, and the pin changes only in an
\* iteration that ran openDoor (an unlock request) or closeDoor (a lock
\* request or the automatic close).
C1_RelayIffOpen ==
    /\ []((relayPin = "LOW") <=> doorOpen)
    /\ [][relayPin' # relayPin =>
             (IsUnlock(dg'.req) \/ dg'.req = "lock" \/ dg'.autoClosed)]_vars

C1_Witness == dg.autoClosed /\ relayPin = "HIGH" /\ ~doorOpen

\* C2 as claimed: an open door is eventually closed whatever arrives later,
\* further unlock commands included.
C2_Original == doorOpen ~> ~doorOpen

\* C2 as amended: an open door is eventually closed or receives a further
\* unlock command (which restarts the open duration); so it is eventually
\* closed once unlock commands stop arriving.
C2_ClosesUnlessUnlockedAgain ==
    \A b \in BOOLEAN :
        (doorOpen /\ dg.toggle = b) ~> (~doorOpen \/ dg.toggle # b)

C2_Witness == dg.autoClosed /\ dg.restarted /\ ~doorOpen

\* C3: with no command after an unlock command, at every tick the door is
\* open with the unlock output asserted while less than DOOR_OPEN_TIME has
\* passed since the command, and closed with the output de-asserted from the
\* first tick at which DOOR_OPEN_TIME has passed; updateDoorStatus closes it
\* at no earlier tick.
C3_OpenUntilDuration ==
    TickedAfterUnlock =>
        /\ SinceUnlock < DOOR_OPEN_TIME => (doorOpen /\ relayPin = "LOW")
        /\ SinceUnlock >= DOOR_OPEN_TIME => (~doorOpen /\ relayPin = "HIGH")
        /\ dg.autoClosed => SinceUnlock >= DOOR_OPEN_TIME

C3_Witness ==
    /\ TickedAfterUnlock
    /\ ~dg.restarted
    /\ dg.autoClosed
    /\ SinceUnlock = DOOR_OPEN_TIME

\* C4 as claimed: at every instant after an unlock command the door is open
\* if and only if now < openedAt + DOOR_OPEN_TIME, openedAt being the time of
\* the latest unlock command.
C4_Original ==
    dg.unlocked => (doorOpen <=> now < dg.openedAt + DOOR_OPEN_TIME)

\* C4 as amended: the equivalence holds right after each control-loop tick,
\* as long as no lock command has followed the latest unlock command.
C4_OpenIffWithinDurationAtTick ==
    TickedAfterUnlock => (doorOpen <=> now < dg.openedAt + DOOR_OPEN_TIME)

C4_Witness ==
    /\ TickedAfterUnlock
    /\ doorOpen
    /\ now = dg.openedAt + DOOR_OPEN_TIME - 1

\* C5: an unlock command received while the door is open replaces the start
\* of the open duration and the recorded reason; the door then stays open
\* until DOOR_OPEN_TIME after that command and is closed at the first tick
\* from then on.
C5_RestartLatestWins ==
    (dg.unlocked /\ dg.restarted) =>
        /\ doorOpenStartTime = dg.openedAt
        /\ lastOperation = dg.reason
        /\ TickedAfterUnlock =>
               (doorOpen <=> USub(now, doorOpenStartTime) < DOOR_OPEN_TIME)

\* unlock(entry), unlock(exit) 3000 ms later, closed 8000 ms after the first.
C5_Witness ==
    /\ TickedAfterUnlock
    /\ dg.restarted
    /\ dg.gap = 3000
    /\ SinceUnlock = DOOR_OPEN_TIME
    /\ dg.autoClosed
    /\ lastOperation = "exit"
    /\ entryCount = 1

\* C6: the iteration that serves a lock command leaves the door closed and
\* the unlock output de-asserted, and the body it sends already says so; from
\* then until the next unlock command the door stays closed and
\* updateDoorStatus closes nothing.
C6_LockForcesClosed ==
    /\ dg.req = "lock" =>
           /\ ~doorOpen
           /\ relayPin = "HIGH"
           /\ response.kind = "json"
           /\ response.door_open = FALSE
           /\ response.relay_pin_state = "HIGH"
    /\ dg.lockSince => (~doorOpen /\ relayPin = "HIGH" /\ ~dg.autoClosed)

C6_Witness ==
    /\ dg.req = "lock"
    /\ dg.wasOpen
    /\ USub(now, doorOpenStartTime) < DOOR_OPEN_TIME
    /\ ~doorOpen

(***************************************************************************)
(* Scanner nodes: feedback, credentials and the held location              *)
(***************************************************************************)
\* The messages a sequence of displayMessage calls shows.
Shown(display) == {display[i] : i \in 1..Len(display)}

\* C21: for every accepted scan, sendRFIDToPython hands at least one message
\* to displayMessage before it returns: the refusal when no server is held,
\* otherwise the announcement followed by the message of the outcome (answer
\* OK, other answer, timeout, no connection); no message is empty.
C21_AlwaysDisplays ==
    (phase = "delay" /\ sg.accepted)
        => /\ Len(sg.display) >= 1
           /\ "" \notin Shown(sg.display)
           /\ sg.display[1] = Message(variant, IF sg.sent THEN "sending"
                                               ELSE "lost")
           /\ sg.sent => sg.display[2] = Message(variant, sg.out)

C21_Witness ==
    /\ phase = "delay"
    /\ sg.accepted
    /\ ~sg.sent
    /\ variant = "entry_oled"
    /\ sg.display = <<"Pi Not Found">>

\* Upper-case hexadecimal digits, without separators.
IsNormalized(str) == str # "" /\ str = ToUpper(str)

\* C23: every credential a scanner node accepts is non-empty and normalized,
\* and so are the credential it keeps for the debounce comparison and the one
\* it submits.
C23_CredentialsNormalized ==
    (phase = "delay" /\ sg.accepted)
        => /\ IsNormalized(sg.read)
           /\ IsNormalized(lastRFID)
           /\ \A i \in 1..Len(sg.requests) :
                  IsNormalized(sg.requests[i].unique_id)

\* The locator's part of the globals.
Location(s) ==
    [piFound |-> s.piFound,
     pythonServerIP |-> s.pythonServerIP,
     lastDiscoveryAttempt |-> s.lastDiscoveryAttempt]

\* The iteration has handled an accepted scan with the found-flag false.
HandledWhileLost == phase = "delay" /\ sg.accepted /\ ~sg.atSend.piFound

\* C24 as stated: handling a scan while the found-flag is false leaves the
\* flag false and changes neither the address nor the discovery timestamp.
C24_Original ==
    HandledWhileLost => Location(ScanState) = Location(sg.atSend)

\* C24: handling a scan while the found-flag is false is a no-op on the
\* locator's state in entry_oled and exit_oled; rfid_entry runs discovery at
\* that point, which sets the discovery timestamp, the address and the flag.
C24_LostScanNoOpOrRediscover ==
    HandledWhileLost
        => /\ ~sg.sent
           /\ IF variant = "rfid_entry"
              THEN /\ sg.reran
                   /\ ScanState =
                          Rediscover(variant, net, sg.atSend, sg.readAt)
              ELSE ScanState = sg.atSend

C24_Witness ==
    /\ HandledWhileLost
    /\ variant = "entry_oled"
    /\ pythonServerIP # 0
    /\ ~piFound
    /\ sg.display = <<"Pi Not Found">>

\* The host numbers from i to NHosts other than own, in ascending order.
RECURSIVE OthersFrom(_, _)
OthersFrom(own, i) ==
    IF i > NHosts THEN <<>>
    ELSE IF i = own THEN OthersFrom(own, i + 1)
    ELSE <<i>> \o OthersFrom(own, i + 1)

\* No host of the subnet passes the node's verification.
NoCandidate ==
    \A i \in Addrs : i # net.own => ~CandidatePasses(variant, net.hosts[i])

\* C26: a run of discovery on a subnet where no candidate passes returns the
\* empty location after probing every host address other than the node's own
\* exactly once, in order, and leaves the found-flag false and no address held.
C26_ExhaustsThenEmpty ==
    /\ (Discovered /\ NoCandidate)
           => /\ sg.returned = 0
              /\ sg.probed = OthersFrom(net.own, 1)
              /\ Len(sg.probed) = NHosts - 1
              /\ ~piFound
              /\ pythonServerIP = 0
    /\ NoCandidate => discoverPiByMAC(variant, net) = 0

C26_Witness ==
    /\ Discovered
    /\ NoCandidate
    /\ variant = "exit_oled"
    /\ net.own = 2
    /\ \E i \in Addrs : net.hosts[i] = "other_pi"
    /\ sg.probed = <<1, 3, 4>>
    /\ ~piFound

\* C27: a submission that is answered, with OK or with anything else, leaves
\* the found-flag set and the address as it was; sendRFIDToPython clears the
\* flag only when the submission times out or no connection is made.
C27_AnswerKeepsLocation ==
    /\ (phase = "delay" /\ sg.out \in {"ok", "error"})
           => /\ piFound
              /\ pythonServerIP # 0
              /\ Location(ScanState) = Location(sg.atSend)
    /\ (phase = "delay" /\ sg.accepted /\ sg.atSend.piFound /\ ~piFound)
           => Unreachable

C27_Witness ==
    /\ phase = "delay"
    /\ sg.out = "error"
    /\ variant = "exit_oled"
    /\ piFound
    /\ "Server Error" \in Shown(sg.display)

(***************************************************************************)
(* Scanner nodes: what a suppressed read and a failed submission leave     *)
(***************************************************************************)
\* The read of this iteration is of the card accepted last.
SameAsLast == sg.card # "" /\ sg.prevOwn >= 0 /\ sg.prevCard = sg.card

\* C37: a suppressed read changes neither lastRFID nor lastScanTime, so the
\* windows run from the last accepted scan: a card read again, with no other
\* card accepted in between, is accepted as soon as SAME_CARD_DELAY has passed
\* since it was last accepted, however often it was read and suppressed in
\* between.
C37_SuppressedReadKeepsDebounce ==
    /\ [][sg'.early => (lastRFID' = lastRFID /\ lastScanTime' = lastScanTime)]_vars
    /\ []((SameAsLast /\ SinceOwn >= SAME_CARD_DELAY) => sg.accepted)

C37_Witness ==
    /\ phase = "delay"
    /\ SameAsLast
    /\ sg.prevRepeat
    /\ SinceOwn = SAME_CARD_DELAY
    /\ sg.accepted
    /\ lastScanTime = sg.readAt

\* C38: an accepted scan sets lastRFID and lastScanTime whatever becomes of
\* its submission; after a scan whose submission failed or was skipped for
\* want of a server, a read of any card within SCAN_DELAY, or of the same card
\* within SAME_CARD_DELAY, is suppressed and nothing is submitted for it.
C38_DebounceBeforeOutcome ==
    /\ (phase = "delay" /\ sg.accepted)
           => (lastRFID = sg.read /\ lastScanTime = sg.readAt)
    /\ (sg.card # "" /\ sg.prevEnd \in {"failed", "skipped"}
        /\ (SinceAny < SCAN_DELAY
            \/ (SameAsLast /\ SinceOwn < SAME_CARD_DELAY)))
           => (~sg.accepted /\ ~sg.sent /\ sg.requests = <<>>)

C38_Witness ==
    /\ phase = "delay"
    /\ sg.prevEnd = "failed"
    /\ SameAsLast
    /\ SinceOwn >= SCAN_DELAY
    /\ SinceOwn < SAME_CARD_DELAY
    /\ sg.early
    /\ ~sg.sent

(***************************************************************************)
(* rfid_entry: reply wait and credential string                            *)
(***************************************************************************)
\* C36: the wait ends with a reply or after the full timeout, whatever the
\* value of the clock: a reply that comes within the timeout is received,
\* and the submission it answers does not mark the server lost.
C36_WaitsFullTimeout ==
    phase = "delay"
        => /\ (~sg.got => sg.waited >= sg.limit)
           /\ (sg.replyAfter >= 0 /\ sg.replyAfter < sg.limit)
                  => (sg.got /\ (sg.kind = "submit" => piFound))

\* C39: the credential built from the UID bytes determines them: no other UID
\* yields the same string.
C39_UidStringInjective ==
    phase = "delay"
        => \A uid \in Uids : uidString(uid) = sg.read => uid = sg.uid

(***************************************************************************)
(* Door controller: effects of the commands                                *)
(***************************************************************************)
\* The reason counter an unlock with reason r increments, as a field name.
CounterOf(r) ==
    IF r = "entry" THEN "entryCount"
    ELSE IF r = "exit" THEN "exitCount" ELSE "manualOperations"

ReasonCounters == {"entryCount", "exitCount", "manualOperations"}

\* d2 is d1 opened at t for reason r: start time and reason recorded, the
\* counter of r one more, the other two reason counters as they were.
OpenedFor(d1, d2, r, t) ==
    /\ d2.doorOpen
    /\ d2.relayPin = "LOW"
    /\ d2.doorOpenStartTime = t
    /\ d2.lastOperation = r
    /\ \A c \in ReasonCounters :
           d2[c] = IF c = CounterOf(r) THEN UInc(d1[c]) ELSE d1[c]

\* C22: an unlock command with reason r received while the door is Closed
\* records openedAt = now and last_operation = r and adds exactly one to the
\* counter of r (manual_operations for a reason that is neither entry nor
\* exit), leaving the other two reason counters unchanged.
C22_UnlockRecords ==
    /\ (phase = "delay" /\ IsUnlock(dg.req) /\ ~dg.before.doorOpen)
           => OpenedFor(dg.before, dg.handled, ReasonOf(dg.req), now)
    /\ ~doorOpen
           => \A r \in {"entry", "exit", "manual"} :
                  OpenedFor(DoorState, openDoor(DoorState, r, now), r, now)

C22_Witness ==
    /\ phase = "delay"
    /\ dg.req = "unlock_exit"
    /\ ~dg.before.doorOpen
    /\ dg.before.entryCount = 1
    /\ exitCount = 1
    /\ entryCount = 1
    /\ manualOperations = 0
    /\ lastOperation = "exit"

\* C25: loop() serves the pending request before it evaluates the auto-close
\* timer: after an iteration that served an unlock command the door is open
\* with its timer restarted at that iteration's instant and was not closed in
\* that iteration, even when the open duration had expired at its start.
C25_RequestsBeforeTimer ==
    (phase = "delay" /\ IsUnlock(dg.req))
        => /\ dg.handled.doorOpen
           /\ dg.handled.doorOpenStartTime = now
           /\ ~dg.autoClosed
           /\ doorOpen
           /\ doorOpenStartTime = now

C25_Witness ==
    /\ phase = "delay"
    /\ IsUnlock(dg.req)
    /\ dg.before.doorOpen
    /\ USub(now, dg.before.doorOpenStartTime) >= DOOR_OPEN_TIME
    /\ doorOpen

\* C28: whatever the outcomes of connectWiFi() and registerWithServer(), the
\* door is Closed with the relay de-asserted (HIGH) from the end of setup()
\* until the first unlock command; and whatever those outcomes, a lock command
\* leaves the door Closed and no iteration ends with the door open at or past
\* its open duration.
C28_ClosedAtStartAnyNetwork ==
    /\ ~dg.unlocked => (~doorOpen /\ relayPin = "HIGH")
    /\ (phase = "delay" /\ dg.req = "lock") => (~doorOpen /\ relayPin = "HIGH")
    /\ (phase = "delay" /\ doorOpen)
           => USub(now, doorOpenStartTime) < DOOR_OPEN_TIME

C28_Witness ==
    /\ ~dg.wifi
    /\ ~dg.registered
    /\ phase = "delay"
    /\ dg.autoClosed
    /\ ~doorOpen
    /\ relayPin = "HIGH"

\* C29: the status request is read-only: in every state handleStatus leaves
\* doorOpen, doorOpenStartTime, lastOperation, the four counters and the relay
\* output as they were, and so did the handler of every status request served.
C29_StatusReadOnly ==
    /\ handleStatus(DoorState, now).door = DoorState
    /\ handleClient(DoorState, "status", now).door = DoorState
    /\ (phase = "delay" /\ dg.req = "status") => dg.handled = dg.before

C29_Witness ==
    /\ phase = "delay"
    /\ dg.req = "status"
    /\ dg.before.doorOpen
    /\ dg.before.totalOperations = 2
    /\ response.kind = "json"
    /\ response.total_operations = 2

\* d2 is d1 closed: only the open flag and the two outputs may differ.
ClosedFrom(d1, d2) ==
    d2 = [d1 EXCEPT !.doorOpen = FALSE, !.relayPin = "HIGH",
                    !.statusLedPin = "LOW"]

\* C30: a lock command and an automatic close change only the open flag and
\* the outputs: the four counters, last_operation and openedAt stay as they
\* were, the status body sent for the lock reports the reason of the last
\* unlock, and a lock command received while Closed changes no state.
C30_CloseKeepsRecords ==
    /\ (phase = "delay" /\ dg.req = "lock")
           => /\ ClosedFrom(dg.before, dg.handled)
              /\ DoorState = dg.handled
              /\ response.last_operation = dg.before.lastOperation
              /\ response.last_operation = dg.reason
              /\ ~dg.before.doorOpen => DoorState = dg.before
    /\ (phase = "delay" /\ dg.autoClosed) => ClosedFrom(dg.handled, DoorState)
    /\ ClosedFrom(DoorState, closeDoor(DoorState))

C30_Witness ==
    /\ phase = "delay"
    /\ dg.req = "lock"
    /\ dg.before.doorOpen
    /\ ~doorOpen
    /\ dg.before.totalOperations = 2
    /\ response.last_operation = "exit"
    /\ lastOperation = "exit"

(***************************************************************************)
(* Door controller: statistics, status body and clock wrap                 *)
(***************************************************************************)
ReasonSum == entryCount + exitCount + manualOperations

\* C31 as stated: total_operations is the sum of the three reason counters
\* and no counter ever decreases.
C31_Original ==
    /\ [](totalOperations = ReasonSum)
    /\ [][/\ totalOperations' >= totalOperations
          /\ entryCount' >= entryCount
          /\ exitCount' >= exitCount
          /\ manualOperations' >= manualOperations]_vars

\* C31: total_operations equals the sum of the three reason counters modulo
\* the width of the counters, and every step leaves each counter as it was or
\* makes it one more modulo that width (so a counter decreases only when it
\* wraps to 0).
C31_SumModuloWidth ==
    /\ [](totalOperations = ReasonSum % CountMod)
    /\ [][/\ totalOperations' \in {totalOperations, UInc(totalOperations)}
          /\ entryCount' \in {entryCount, UInc(entryCount)}
          /\ exitCount' \in {exitCount, UInc(exitCount)}
          /\ manualOperations' \in {manualOperations,
                                    UInc(manualOperations)}]_vars

C31_Witness ==
    /\ dg.unlocked
    /\ totalOperations = 0
    /\ ReasonSum = CountMod
    /\ entryCount > 0
    /\ exitCount > 0

\* C32: every unlock command served adds exactly one to total_operations and
\* to the counter of its reason and leaves the other two reason counters as
\* they were, whether the door was Closed or already Open.
C32_CountsCommands ==
    (phase = "delay" /\ IsUnlock(dg.req))
        => /\ dg.handled.totalOperations = UInc(dg.before.totalOperations)
           /\ \A c \in ReasonCounters :
                  dg.handled[c] = IF c = CounterOf(ReasonOf(dg.req))
                                  THEN UInc(dg.before[c])
                                  ELSE dg.before[c]
           /\ totalOperations = dg.handled.totalOperations
           /\ \A c \in ReasonCounters : DoorState[c] = dg.handled[c]

C32_Witness ==
    /\ phase = "delay"
    /\ dg.req = "unlock_entry"
    /\ dg.before.doorOpen
    /\ dg.before.entryCount = 1
    /\ entryCount = 2
    /\ totalOperations = 2
    /\ doorOpen

\* C33: no handler unlocks with the reason "manual": manual_operations is 0
\* and last_operation is "", "entry" or "exit" in every reachable state, and
\* the unlock requests the controller's own page sends record entry or exit.
C33_NoManualUnlock ==
    /\ manualOperations = 0
    /\ lastOperation \in {"", "entry", "exit"}
    /\ \A req \in PageRequests :
           LET d == handleClient(DoorState, req, now).door
           IN  /\ d.manualOperations = 0
               /\ IsUnlock(req) => d.lastOperation \in {"entry", "exit"}

C33_Witness ==
    /\ phase = "delay"
    /\ dg.req = "root"
    /\ response.kind = "html"
    /\ totalOperations = 2
    /\ entryCount = 1
    /\ exitCount = 1
    /\ manualOperations = 0
    /\ lastOperation = "exit"

\* C34: a status body that reports door_open = true reports a
\* time_until_close_ms between 0 and DOOR_OPEN_TIME.
C34_TimeUntilCloseInRange ==
    (response.kind = "json" /\ response.door_open)
        => (response.time_until_close_ms >= 0
            /\ response.time_until_close_ms <= DOOR_OPEN_TIME)

\* C35: across the wrap of the millisecond clock, after every iteration that
\* follows an unlock command with no lock command since, the door is open
\* if and only if less than DOOR_OPEN_TIME has really passed since that
\* unlock command.
C35_AutoCloseAcrossWrap ==
    (phase = "delay" /\ dg.unlocked /\ ~dg.lockSince)
        => (doorOpen <=> Real(now) - Real(dg.openedAt) < DOOR_OPEN_TIME)

C35_Witness ==
    /\ phase = "delay"
    /\ dg.autoClosed
    /\ ~doorOpen
    /\ now < dg.openedAt
    /\ ClockMod - dg.openedAt < DOOR_OPEN_TIME
    /\ Real(now) - Real(dg.openedAt) >= DOOR_OPEN_TIME

====
